---- MODULE Spec2Model ----
(***************************************************************************)
(* Model of the facilitator-agent backend (oXyut/facilitator-agent):       *)
(*   - the validated-generation retry engine  (_validate)                  *)
(*   - status resolution of the agenda data model (resolve_status)         *)
(*   - transcription text cleanup (clean_text)                             *)
(*   - the /agenda interval update run by the asyncio event loop           *)
(***************************************************************************)
EXTENDS Integers, Sequences, FiniteSets, TLC

VARIABLES
    eng,        \* the _validate activation of the calling coroutine
    attempts,   \* history of backend outcomes seen by a direct _validate call
    rsItems,    \* AgendaItemModel objects of the agenda resolve_status is called on
    rsHandOver, \* hand_over of that agenda
    rsOld,      \* the objects as they were before the last resolve_status call
    rsLast,     \* the last resolve_status call and what it returned
    trIn,       \* the TranscriptionModel clean_text is called on
    trOld,      \* that transcription as it was before any call
    trOut,      \* clean_text(trIn)
    trOut2,     \* clean_text(clean_text(trIn))
    trPc,       \* how many times clean_text has been applied
    agenda,     \* the AgendaModel object the /agenda request received
    agenda0,    \* that agenda as it was when the request started
    pc,         \* position of the /agenda coroutine
    gcs,        \* the uploaded mixed-audio object
    transcription, \* what process_audio_files returned
    tasks,      \* the asyncio tasks gather wraps the item coroutines in
    heapOut,    \* heapOut[i]: the AgendaItemModel object task i parsed, if any
    taskParsed, \* taskParsed[i]: that object as it was when task i returned it
    outer,      \* the future asyncio.gather returned
    ready,      \* the event loop's FIFO queue of callbacks
    running,    \* the callback the event loop is executing
    new_agenda, \* the AgendaModel object built from the gathered items
    response,   \* what the endpoint answered
    hand_over,  \* the note process_hand_over returned to the endpoint
    chained,    \* whether the request carries the agenda a previous request returned
    req2,       \* a second inbound request: its position and its own _validate frame
    schIn,      \* the JSON Schema handed to parse_json_schema
    schOut,     \* the schema parse_json_schema returned
    schPc       \* whether parse_json_schema has run

engVars == <<eng, attempts>>
rsVars == <<rsItems, rsHandOver, rsOld, rsLast>>
trVars == <<trIn, trOld, trOut, trOut2, trPc>>
loopVars == <<tasks, heapOut, taskParsed, outer, ready, running>>
sideVars == <<chained, req2>>
reqVars == <<agenda, agenda0, pc, gcs, transcription, new_agenda, response, hand_over, sideVars>>
flowVars == <<loopVars, reqVars>>
schVars == <<schIn, schOut, schPc>>
vars == <<engVars, rsVars, trVars, flowVars, schVars>>

(***************************************************************************)
(* Bounds of the model and program constants.                              *)
(***************************************************************************)
\* largest max_retries a direct _validate call is started with
MaxN == 5
\* GeminiConfig.MAX_RETRIES
MAX_RETRIES == 5
\* the max_retries process_transcript passes to _validate
TRANSCRIPT_RETRIES == 5

\* most goals of one agenda item
MaxGoals == 2
\* most items of one agenda
MaxItems == 2
\* most characters of one comment text
MaxLen == 3
\* most comments of one transcription
MaxComments == 2

None == "None"

(***************************************************************************)
(* Data model (models.py).                                                 *)
(***************************************************************************)
\* lists of length at most n over S
SeqsUpTo(S, n) == UNION {[1..k -> S] : k \in 0..n}

\* class CommentsModel
CommentsModel(metas, texts) ==
    {[start_sec |-> m[1], end_sec |-> m[2], speaker_id |-> m[3], text |-> t] :
        m \in metas, t \in texts}

\* class TranscriptionModel
TranscriptionModel(comments, n) == [comments : SeqsUpTo(comments, n)]

\* str.strip(): leading and trailing whitespace only
RECURSIVE LStrip(_)
LStrip(text) ==
    IF text # <<>> /\ Head(text) \in {" ", "\t"} THEN LStrip(Tail(text)) ELSE text

RECURSIVE RStrip(_)
RStrip(text) ==
    IF text # <<>> /\ text[Len(text)] \in {" ", "\t"}
    THEN RStrip(SubSeq(text, 1, Len(text) - 1)) ELSE text

StrReplaceSpace_strip(text) == RStrip(LStrip(text))

\* self.text.replace(" ", ""): a text is the sequence of its characters
StrReplaceSpace(text) == SelectSeq(text, LAMBDA c : c # " ")

\* CommentsModel.clean_text
CommentCleanText(c) ==
    [start_sec |-> c.start_sec, end_sec |-> c.end_sec,
     speaker_id |-> c.speaker_id, text |-> StrReplaceSpace(c.text)]

\* TranscriptionModel.clean_text
TranscriptionCleanText(t) ==
    [comments |-> [i \in 1..Len(t.comments) |-> CommentCleanText(t.comments[i])]]

\* class MeetingStatus
NOT_STARTED == "NOT_STARTED"
IN_PROGRESS == "IN_PROGRESS"
COMPLETED == "COMPLETED"
MeetingStatus == {NOT_STARTED, IN_PROGRESS, COMPLETED}

\* class AgendaGoalModel
AgendaGoalModel(dones, conditions, results) ==
    [done : dones, condition : conditions, result : results]

\* class AgendaItemModel
AgendaItemModel(agendas, minutes, statuses, goalLists) ==
    [agenda : agendas, minutes : minutes, status : statuses, goals : goalLists]

\* the status computed from the goals alone, testing `any` before `all`
StatusOfGoals_any_first(goals) ==
    IF \E i \in 1..Len(goals) : goals[i].done THEN IN_PROGRESS
    ELSE IF \A i \in 1..Len(goals) : goals[i].done THEN COMPLETED
    ELSE NOT_STARTED

\* AgendaItemModel.resolve_status: the if/elif/else over all(...) and any(...)
StatusOfGoals(goals) ==
    IF \A i \in 1..Len(goals) : goals[i].done THEN COMPLETED
    ELSE IF \E i \in 1..Len(goals) : goals[i].done THEN IN_PROGRESS
    ELSE NOT_STARTED

\* AgendaItemModel.resolve_status: assigns self.status and returns self
ItemResolveStatus(item) == [item EXCEPT !.status = StatusOfGoals(item.goals)]

(***************************************************************************)
(* The generation backend: model.generate_content + model_validate_json.   *)
(***************************************************************************)
\* the ways one attempt can fail inside the try block of _validate
FailKinds == {"transport", "json", "schema"}

\* payloads a direct _validate call may parse successfully
DirectValues == {"v1", "v2"}

(***************************************************************************)
(* _validate: recursive retry with exponential backoff.                    *)
(***************************************************************************)
EngIdle ==
    [pc |-> "idle", retries |-> 0, max_retries |-> 0, calls |-> 0,
     fails |-> 0, sleeps |-> <<>>, err |-> None, result |-> None]

\* _validate(model, parts, schema_cls, retries=0, max_retries)
EngStart(max) ==
    [pc |-> "call", retries |-> 0, max_retries |-> max, calls |-> 0,
     fails |-> 0, sleeps |-> <<>>, err |-> None, result |-> None]

\* a linear schedule in place of the exponential one
exponential_backoff_linear(r) == 2 * r

\* exponential_backoff: time.sleep(2**retries)
exponential_backoff(r) == 2 ^ r

\* schema-validation failures treated as fatal instead of retried
ShouldRetry_schema_fatal(kind, r, max) == kind # "schema" /\ r < max

\* `if retries < max_retries` in the except branch; the exception kind is not inspected
\* retries <= max_retries
ShouldRetry_inclusive(kind, r, max) == r <= max

ShouldRetry(kind, r, max) == r < max

\* the recursive call made without `return`: a success below the top frame
\* falls through to `raise e` in the frame that retried
EngSuccess_no_return(e, v) ==
    IF e.retries = 0
    THEN [e EXCEPT !.pc = "returned", !.calls = @ + 1, !.result = v]
    ELSE [e EXCEPT !.pc = "raised", !.calls = @ + 1]

\* try: generate_content + model_validate_json succeeded: return parsed_response
EngSuccess(e, v) ==
    [e EXCEPT !.pc = "returned", !.calls = @ + 1, !.result = v]

\* the activation has returned to its caller: its locals are gone
EngClose(e) == [EngIdle EXCEPT !.pc = e.pc]

\* except Exception as e: retry after backoff, or raise e
EngFailure(e, kind) ==
    [e EXCEPT !.pc = IF ShouldRetry(kind, e.retries, e.max_retries)
                     THEN "sleep" ELSE "raised",
              !.calls = @ + 1,
              !.fails = @ + 1,
              !.err = kind]

\* exponential_backoff(retries); return _validate(..., retries + 1, max_retries)
EngBackoff(e) ==
    [e EXCEPT !.pc = "call",
              !.sleeps = Append(@, exponential_backoff(e.retries)),
              !.retries = @ + 1,
              !.err = None]

(***************************************************************************)
(* A direct call of _validate against a backend that fails or answers at   *)
(* will: the specification under which the retry engine is examined.       *)
(***************************************************************************)
RsIdle ==
    /\ rsItems = <<>>
    /\ rsHandOver = None
    /\ rsOld = <<>>
    /\ rsLast = [op |-> "none", idx |-> 0, items |-> <<>>, hand_over |-> None]

TrIdle ==
    /\ trIn = [comments |-> <<>>]
    /\ trOld = trIn
    /\ trOut = trIn
    /\ trOut2 = trIn
    /\ trPc = "idle"

\* handles of the event loop
Req == [kind |-> "req", idx |-> 0]
Nobody == [kind |-> "none", idx |-> 0]
TaskStep(i) == [kind |-> "task", idx |-> i]
DoneCb(i) == [kind |-> "done", idx |-> i]
WakeUp == [kind |-> "wake", idx |-> 0]

NoOuter == [state |-> "none", nfinished |-> 0, results |-> <<>>]
NoAgenda == [present |-> FALSE, items |-> <<>>, hand_over |-> None]
NoResponse == [kind |-> "none", items |-> <<>>, hand_over |-> None]
NoGcs == [uploaded |-> FALSE, exists |-> FALSE, deletes |-> 0]

\* no second request
NoReq2 == [pc |-> "absent", eng |-> EngIdle, response |-> "none"]

FlowIdle ==
    /\ agenda = [items |-> <<>>, hand_over |-> None]
    /\ agenda0 = agenda
    /\ pc = "idle"
    /\ gcs = NoGcs
    /\ transcription = [comments |-> <<>>]
    /\ tasks = <<>>
    /\ heapOut = <<>>
    /\ taskParsed = <<>>
    /\ outer = NoOuter
    /\ ready = <<>>
    /\ running = Nobody
    /\ new_agenda = NoAgenda
    /\ response = NoResponse
    /\ hand_over = None
    /\ chained = FALSE
    /\ req2 = NoReq2

\* JSON values: strings and numbers, lists, dicts
Atom(v) == [t |-> "atom", v |-> v]
List(xs) == [t |-> "list", items |-> xs]
Dict(f) == [t |-> "dict", d |-> f]

SchIdle ==
    /\ schIn = Dict(<<>>)
    /\ schOut = Dict(<<>>)
    /\ schPc = "idle"

InitValidate ==
    /\ \E n \in 0..MaxN : eng = EngStart(n)
    /\ attempts = <<>>
    /\ RsIdle
    /\ TrIdle
    /\ FlowIdle
    /\ SchIdle

\* response = model.generate_content(parts); schema_cls.model_validate_json(response.text)
ValidateAttemptOk ==
    /\ eng.pc = "call"
    /\ \E v \in DirectValues :
          /\ eng' = EngSuccess(eng, v)
          /\ attempts' = Append(attempts, [kind |-> "ok", value |-> v])
    /\ UNCHANGED <<rsVars, trVars, schVars, flowVars>>

\* any exception of the try block
ValidateAttemptFail ==
    /\ eng.pc = "call"
    /\ \E k \in FailKinds :
          /\ eng' = EngFailure(eng, k)
          /\ attempts' = Append(attempts, [kind |-> k, value |-> None])
    /\ UNCHANGED <<rsVars, trVars, schVars, flowVars>>

\* time.sleep(2**retries), then the recursive call
ValidateBackoff ==
    /\ eng.pc = "sleep"
    /\ eng' = EngBackoff(eng)
    /\ UNCHANGED <<attempts, rsVars, trVars, schVars, flowVars>>

NextValidate ==
    \/ ValidateAttemptOk
    \/ ValidateAttemptFail
    \/ ValidateBackoff

SpecValidate == InitValidate /\ [][NextValidate]_vars

AllFailed == \A i \in 1..Len(attempts) : attempts[i].kind \in FailKinds

RECURSIVE Pow2(_)
Pow2(i) == IF i = 0 THEN 1 ELSE 2 * Pow2(i - 1)

\* C1: against a backend whose every attempt fails (transport, JSON or schema
\* failure alike), _validate started with retries=0 and max_retries=n makes
\* n+1 backend calls, ends in failure exactly at the (n+1)-th failed call,
\* never makes an (n+2)-th call and never returns a value.
C1_RetryBound ==
    AllFailed =>
        /\ eng.calls = Len(attempts)
        /\ eng.calls <= eng.max_retries + 1
        /\ eng.pc \in {"call", "sleep", "raised"}
        /\ eng.result = None
        /\ (eng.pc = "raised") <=> (eng.calls = eng.max_retries + 1)

C1_Witness ==
    /\ eng.pc = "raised"
    /\ eng.max_retries = 3
    /\ Len(attempts) = 4
    /\ attempts[1].kind = "transport"
    /\ attempts[2].kind = "json"
    /\ attempts[3].kind = "schema"
    /\ attempts[4].kind = "json"

\* C2: when the backend fails on its first k attempts (k <= max_retries) and
\* then answers with a schema-valid response, _validate returns the parsed
\* value of that response after exactly k+1 backend calls; the successful
\* attempt is the last backend call and no backoff sleep follows it.
C2_SuccessPath ==
    \A i \in 1..Len(attempts) :
        attempts[i].kind = "ok" =>
            /\ i = Len(attempts)
            /\ \A j \in 1..(i - 1) : attempts[j].kind \in FailKinds
            /\ i - 1 <= eng.max_retries
            /\ eng.pc = "returned"
            /\ eng.calls = i
            /\ eng.result = attempts[i].value
            /\ Len(eng.sleeps) = i - 1

C2_Witness ==
    /\ eng.pc = "returned"
    /\ eng.max_retries = 3
    /\ Len(attempts) = 3
    /\ attempts[1].kind = "schema"
    /\ attempts[2].kind = "transport"
    /\ attempts[3] = [kind |-> "ok", value |-> "v2"]
    /\ eng.result = "v2"

\* C3: the sleep between failed attempt i and attempt i+1 (from 0) lasts 2^i
\* time units; exactly one sleep separates consecutive attempts, and no sleep
\* follows the final failed attempt, so an always-failing backend with
\* max_retries=n is slept on for 2^0, 2^1, ..., 2^(n-1).
C3_BackoffSchedule ==
    /\ \A i \in 1..Len(eng.sleeps) : eng.sleeps[i] = Pow2(i - 1)
    /\ eng.pc = "call" => Len(eng.sleeps) = Len(attempts)
    /\ eng.pc \in {"sleep", "returned", "raised"} =>
            Len(eng.sleeps) = Len(attempts) - 1
    /\ eng.pc = "raised" => Len(eng.sleeps) = eng.max_retries

C3_Witness ==
    /\ eng.pc = "raised"
    /\ eng.max_retries = 4
    /\ AllFailed
    /\ eng.sleeps = <<1, 2, 4, 8>>

(***************************************************************************)
(* resolve_status called on the items of an agenda and on the agenda.      *)
(***************************************************************************)
ResolveGoals == SeqsUpTo(AgendaGoalModel(BOOLEAN, {"c1"}, {None}), MaxGoals)
ResolveItems == AgendaItemModel({"A"}, {None}, MeetingStatus, ResolveGoals)

EngUnused ==
    /\ eng = EngIdle
    /\ attempts = <<>>

InitResolve ==
    /\ rsItems \in SeqsUpTo(ResolveItems, MaxItems)
    /\ rsHandOver \in {None, "h0"}
    /\ rsOld = rsItems
    /\ rsLast = [op |-> "none", idx |-> 0, items |-> <<>>, hand_over |-> None]
    /\ EngUnused
    /\ TrIdle
    /\ FlowIdle
    /\ SchIdle

\* item.resolve_status() on the i-th item object: mutates it, returns it
ResolveItemCall ==
    \E i \in 1..Len(rsItems) :
        /\ rsOld' = rsItems
        /\ rsItems' = [rsItems EXCEPT ![i] = ItemResolveStatus(@)]
        /\ rsLast' = [op |-> "item", idx |-> i, items |-> <<i>>, hand_over |-> None]
        /\ UNCHANGED <<rsHandOver, engVars, trVars, schVars, flowVars>>

\* agenda.resolve_status(): AgendaModel(items=[item.resolve_status() for item in self.items])
ResolveAgendaCall ==
    /\ rsOld' = rsItems
    /\ rsItems' = [i \in 1..Len(rsItems) |-> ItemResolveStatus(rsItems[i])]
    /\ rsLast' = [op |-> "agenda", idx |-> 0,
                  items |-> [i \in 1..Len(rsItems) |-> i], hand_over |-> None]
    /\ UNCHANGED <<rsHandOver, engVars, trVars, schVars, flowVars>>

NextResolve ==
    \/ ResolveItemCall
    \/ ResolveAgendaCall

SpecResolve == InitResolve /\ [][NextResolve]_vars

\* the item objects the last resolve_status call was applied to
Resolved == {rsLast.items[k] : k \in 1..Len(rsLast.items)}

NumDone(goals) == Cardinality({i \in 1..Len(goals) : goals[i].done})

\* C4: for an item with at least one goal, after resolve_status the status is
\* COMPLETED iff every goal is done, IN_PROGRESS iff some but not all goals are
\* done, NOT_STARTED iff no goal is done, whatever the status was before.
C4_StatusRule ==
    \A i \in Resolved :
        LET goals == rsItems[i].goals
            st == rsItems[i].status
        IN  Len(goals) >= 1 =>
              /\ goals = rsOld[i].goals
              /\ (st = COMPLETED) <=> (NumDone(goals) = Len(goals))
              /\ (st = IN_PROGRESS) <=> (0 < NumDone(goals) /\ NumDone(goals) < Len(goals))
              /\ (st = NOT_STARTED) <=> (NumDone(goals) = 0)

C4_Witness ==
    /\ rsLast.op = "item"
    /\ rsLast.idx = 1
    /\ rsOld[1].status = COMPLETED
    /\ Len(rsItems[1].goals) = 2
    /\ rsItems[1].goals[1].done
    /\ ~rsItems[1].goals[2].done
    /\ rsItems[1].status = IN_PROGRESS

\* C5: for an item whose goal list is empty, resolve_status yields NOT_STARTED.
C5_EmptyGoalsNotStarted ==
    \A i \in Resolved :
        rsItems[i].goals = <<>> => rsItems[i].status = NOT_STARTED

(***************************************************************************)
(* clean_text applied to a transcription, and to its own result.           *)
(***************************************************************************)
Chars == {"a", " "}
CleanMetas == {<<0, 1, "s1">>, <<1, 3, "s2">>}
CleanInputs ==
    TranscriptionModel(CommentsModel(CleanMetas, SeqsUpTo(Chars, MaxLen)), MaxComments)

InitClean ==
    /\ trIn \in CleanInputs
    /\ trOld = trIn
    /\ trOut = [comments |-> <<>>]
    /\ trOut2 = [comments |-> <<>>]
    /\ trPc = "start"
    /\ EngUnused
    /\ RsIdle
    /\ FlowIdle
    /\ SchIdle

\* t.clean_text()
CleanOnce ==
    /\ trPc = "start"
    /\ trOut' = TranscriptionCleanText(trIn)
    /\ trPc' = "once"
    /\ UNCHANGED <<trIn, trOld, trOut2, engVars, rsVars, flowVars, schVars>>

\* t.clean_text().clean_text()
CleanTwice ==
    /\ trPc = "once"
    /\ trOut2' = TranscriptionCleanText(trOut)
    /\ trPc' = "twice"
    /\ UNCHANGED <<trIn, trOld, trOut, engVars, rsVars, flowVars, schVars>>

NextClean ==
    \/ CleanOnce
    \/ CleanTwice

SpecClean == InitClean /\ [][NextClean]_vars

\* the characters of text other than the space, in order
RECURSIVE NonSpaces(_)
NonSpaces(text) ==
    IF text = <<>> THEN <<>>
    ELSE IF Head(text) = " " THEN NonSpaces(Tail(text))
    ELSE <<Head(text)>> \o NonSpaces(Tail(text))

\* C10: clean_text removes every space character of every comment text,
\* wherever it stands, and nothing else; it keeps the number and order of the
\* comments and each comment's start_sec, end_sec and speaker_id; it leaves
\* its input unmodified; applied twice it gives what it gives applied once.
C10_CleanText ==
    /\ trIn = trOld
    /\ trPc \in {"once", "twice"} =>
          /\ Len(trOut.comments) = Len(trOld.comments)
          /\ \A i \in 1..Len(trOld.comments) :
                LET c == trOld.comments[i]
                    d == trOut.comments[i]
                IN  /\ d.start_sec = c.start_sec
                    /\ d.end_sec = c.end_sec
                    /\ d.speaker_id = c.speaker_id
                    /\ \A k \in 1..Len(d.text) : d.text[k] # " "
                    /\ d.text = NonSpaces(c.text)
    /\ trPc = "twice" => trOut2 = trOut

C10_Witness ==
    /\ trPc = "twice"
    /\ Len(trOld.comments) = 2
    /\ trOld.comments[1].speaker_id = "s2"
    /\ trOld.comments[2].speaker_id = "s1"
    /\ trOld.comments[1].text = <<"a", " ", "a">>
    /\ trOld.comments[2].text = <<" ", "a">>
    /\ trOut.comments[1].text = <<"a", "a">>
    /\ trOut.comments[2].text = <<"a">>
    /\ trOut2 = trOut

(***************************************************************************)
(* The /agenda endpoint (main.py: agenda) run by the asyncio event loop.   *)
(***************************************************************************)
Goal(d, c, r) == [done |-> d, condition |-> c, result |-> r]
Item(a, m, st, gs) == [agenda |-> a, minutes |-> m, status |-> st, goals |-> gs]

\* agenda items a caller may send (validate_agenda accepts any schema-valid JSON)
FlowInputItems ==
    { Item("A", None, NOT_STARTED, <<Goal(FALSE, "c1", None)>>),
      Item("A", "m", COMPLETED, <<Goal(TRUE, "c1", "r")>>),
      Item("A", None, NOT_STARTED, <<>>),
      Item("A", "m", IN_PROGRESS, <<Goal(FALSE, "c1", "r")>>) }

\* schema-valid AgendaItemModel responses of the backend: nothing ties a
\* response to the item the prompt carried
FlowResponses ==
    { Item("A", "m", NOT_STARTED, <<Goal(FALSE, "c1", None)>>),
      Item("A", "m", COMPLETED, <<Goal(TRUE, "c1", "r")>>),
      Item("A", "m", NOT_STARTED, <<Goal(TRUE, "c1", "r")>>),
      Item("A", "m", COMPLETED, <<Goal(FALSE, "c1", None)>>),
      Item("B", "m", IN_PROGRESS, <<Goal(FALSE, "c1", None)>>),
      Item("A", "m", IN_PROGRESS, <<Goal(FALSE, "c2", "r")>>),
      Item("A", "m", NOT_STARTED, <<>>),
      Item("A", "m", IN_PROGRESS, <<Goal(TRUE, "c1", "r"), Goal(FALSE, "c1", None)>>) }

\* schema-valid TranscriptionModel responses
FlowTranscripts ==
    { [comments |-> <<[start_sec |-> 0, end_sec |-> 1, speaker_id |-> "s1",
                       text |-> <<"a", " ">>]>>],
      [comments |-> <<[start_sec |-> 0, end_sec |-> 1, speaker_id |-> "s1",
                       text |-> <<" ", "a">>]>>] }

\* schema-valid HandOverModel responses
HandNotes == {"h1", "h2"}

\* a reference to the object task i parsed
OutRef(i) == [heap |-> "out", idx |-> i]

InitFlow ==
    /\ agenda \in [items : SeqsUpTo(FlowInputItems, MaxItems), hand_over : {"h0"}]
    /\ agenda0 = agenda
    /\ pc = "webm"
    /\ gcs = NoGcs
    /\ transcription = [comments |-> <<>>]
    /\ tasks = <<>>
    /\ heapOut = <<>>
    /\ taskParsed = <<>>
    /\ outer = NoOuter
    /\ ready = <<>>
    /\ running = Req
    /\ new_agenda = NoAgenda
    /\ response = NoResponse
    /\ hand_over = None
    /\ chained = FALSE
    /\ req2 = NoReq2
    /\ EngUnused
    /\ RsIdle
    /\ TrIdle
    /\ SchIdle

\* raise fastapi.HTTPException(500, ...), or an exception FastAPI turns into a 500
Fail500 == [kind |-> "error", items |-> <<>>, hand_over |-> None]

\* process_webm_file: mix the two audio files and upload the result
Upload ==
    /\ pc = "webm" /\ running = Req
    /\ \/ /\ gcs' = [uploaded |-> TRUE, exists |-> TRUE, deletes |-> 0]
          /\ pc' = "transcript"
          /\ eng' = EngStart(TRANSCRIPT_RETRIES)
          /\ UNCHANGED <<response, running>>
       \/ /\ pc' = "error"
          /\ response' = Fail500
          /\ running' = Nobody
          /\ UNCHANGED <<gcs, eng>>
    /\ UNCHANGED <<attempts, rsVars, trVars, schVars, hand_over, sideVars, tasks, heapOut, taskParsed, outer, ready,
                   agenda, agenda0, transcription, new_agenda>>

\* process_transcript: an attempt of _validate that parses; then .clean_text()
TranscriptAttemptOk ==
    /\ pc = "transcript" /\ running = Req /\ eng.pc = "call"
    /\ \E t \in FlowTranscripts :
          /\ eng' = EngClose(EngSuccess(eng, "transcription"))
          /\ transcription' = TranscriptionCleanText(t)
    /\ pc' = "delete"
    /\ UNCHANGED <<attempts, rsVars, trVars, schVars, hand_over, sideVars, loopVars,
                   agenda, agenda0, gcs, new_agenda, response>>

\* process_transcript: an attempt of _validate that fails
TranscriptAttemptFail ==
    /\ pc = "transcript" /\ running = Req /\ eng.pc = "call"
    /\ \E k \in FailKinds : eng' = EngFailure(eng, k)
    /\ pc' = IF eng'.pc = "raised" THEN "delete_exc" ELSE pc
    /\ UNCHANGED <<attempts, rsVars, trVars, schVars, hand_over, sideVars, loopVars,
                   agenda, agenda0, gcs, transcription, new_agenda, response>>

\* process_transcript: the backoff sleep of _validate
TranscriptBackoff ==
    /\ pc = "transcript" /\ running = Req /\ eng.pc = "sleep"
    /\ eng' = EngBackoff(eng)
    /\ UNCHANGED <<attempts, rsVars, trVars, schVars, flowVars>>

\* process_audio_files, try branch: delete_gcs_file(gcs_file); return transcription
DeleteAfterTranscript ==
    /\ pc = "delete" /\ running = Req
    /\ \E ok \in BOOLEAN :
          /\ gcs' = [gcs EXCEPT !.deletes = @ + 1,
                                !.exists = IF ok THEN FALSE ELSE @]
          /\ pc' = IF ok THEN "gather" ELSE "delete_exc"
    /\ UNCHANGED <<engVars, rsVars, trVars, schVars, hand_over, sideVars, loopVars,
                   agenda, agenda0, transcription, new_agenda, response>>

\* the except branch raising without deleting the uploaded object
DeleteAfterFailure_no_delete ==
    /\ pc = "delete_exc" /\ running = Req
    /\ pc' = "error"
    /\ response' = Fail500
    /\ running' = Nobody
    /\ UNCHANGED <<engVars, rsVars, trVars, schVars, hand_over, sideVars, tasks, heapOut,
                   taskParsed, outer, ready, agenda, agenda0, gcs, transcription, new_agenda>>

\* process_audio_files, except branch: delete_gcs_file(gcs_file); raise HTTPException(500)
DeleteAfterFailure ==
    /\ pc = "delete_exc" /\ running = Req
    /\ \E ok \in BOOLEAN :
          gcs' = [gcs EXCEPT !.deletes = @ + 1,
                             !.exists = IF ok THEN FALSE ELSE @]
    /\ pc' = "error"
    /\ response' = Fail500
    /\ running' = Nobody
    /\ UNCHANGED <<engVars, rsVars, trVars, schVars, hand_over, sideVars, tasks, heapOut, taskParsed, outer, ready,
                   agenda, agenda0, transcription, new_agenda>>

\* the coroutines handed to gather, in a different order than the items
TaskInputs_reversed(items) == [i \in 1..Len(items) |-> Len(items) + 1 - i]

\* every task is given the first item
TaskInputs_first(items) == [i \in 1..Len(items) |-> 1]

\* tasks = [process_agenda_by_item(transcription, item) for item in agenda.items]
TaskInputs(items) == [i \in 1..Len(items) |-> i]

\* items = await asyncio.gather(*tasks): every coroutine becomes a task whose first
\* step is queued; with no coroutine the future is created already resolved
Gather ==
    /\ pc = "gather" /\ running = Req
    /\ LET n == Len(agenda.items)
           inputs == TaskInputs(agenda.items)
       IN  /\ tasks' = [i \in 1..n |->
                          [state |-> "scheduled", input |-> inputs[i], eng |-> EngIdle]]
           /\ heapOut' = [i \in 1..n |-> <<>>]
           /\ taskParsed' = [i \in 1..n |-> <<>>]
           /\ ready' = ready \o [i \in 1..n |-> TaskStep(i)]
           /\ IF n = 0
              THEN /\ outer' = [state |-> "result", nfinished |-> 0, results |-> <<>>]
                   /\ pc' = "resolve"
                   /\ UNCHANGED running
              ELSE /\ outer' = [state |-> "pending", nfinished |-> 0, results |-> <<>>]
                   /\ pc' = "await"
                   /\ running' = Nobody
    /\ UNCHANGED <<engVars, rsVars, trVars, schVars, hand_over, sideVars,
                   agenda, agenda0, gcs, transcription, new_agenda, response>>

\* the loop runs the first step of task i: process_agenda_by_item up to _validate
TaskStart ==
    /\ running = Nobody /\ ready # <<>> /\ Head(ready).kind = "task"
    /\ LET i == Head(ready).idx
       IN  /\ tasks' = [tasks EXCEPT ![i].state = "running",
                                     ![i].eng = EngStart(MAX_RETRIES)]
           /\ running' = TaskStep(i)
    /\ ready' = Tail(ready)
    /\ UNCHANGED <<engVars, rsVars, trVars, schVars, heapOut, taskParsed, outer, reqVars>>

\* process_agenda_by_item: an attempt of _validate that parses; the coroutine
\* returns the parsed object, the task is done and its done-callback is queued
TaskAttemptOk ==
    /\ running.kind = "task"
    /\ LET i == running.idx
       IN  /\ tasks[i].eng.pc = "call"
           /\ \E v \in FlowResponses :
                 /\ tasks' = [tasks EXCEPT ![i].eng = EngClose(EngSuccess(@, "item")),
                                           ![i].state = "done"]
                 /\ heapOut' = [heapOut EXCEPT ![i] = <<v>>]
                 /\ taskParsed' = [taskParsed EXCEPT ![i] = <<v>>]
           /\ ready' = Append(ready, DoneCb(i))
    /\ running' = Nobody
    /\ UNCHANGED <<engVars, rsVars, trVars, schVars, outer, reqVars>>

\* a raising task cancelling the tasks that have not started
TaskAttemptFail_cancel_rest ==
    /\ running.kind = "task"
    /\ LET i == running.idx
       IN  /\ tasks[i].eng.pc = "call"
           /\ \E k \in FailKinds :
                LET e == EngFailure(tasks[i].eng, k)
                IN  IF e.pc = "raised"
                    THEN /\ tasks' = [tasks EXCEPT ![i].eng = e, ![i].state = "failed"]
                         /\ ready' = <<DoneCb(i)>>
                         /\ running' = Nobody
                    ELSE /\ tasks' = [tasks EXCEPT ![i].eng = e]
                         /\ UNCHANGED <<ready, running>>
    /\ UNCHANGED <<engVars, rsVars, trVars, schVars, heapOut, taskParsed, outer, reqVars>>

\* process_agenda_by_item: an attempt of _validate that fails; after the last one
\* the coroutine raises, the task is done and its done-callback is queued
TaskAttemptFail ==
    /\ running.kind = "task"
    /\ LET i == running.idx
       IN  /\ tasks[i].eng.pc = "call"
           /\ \E k \in FailKinds :
                LET e == EngFailure(tasks[i].eng, k)
                IN  IF e.pc = "raised"
                    THEN /\ tasks' = [tasks EXCEPT ![i].eng = e, ![i].state = "failed"]
                         /\ ready' = Append(ready, DoneCb(i))
                         /\ running' = Nobody
                    ELSE /\ tasks' = [tasks EXCEPT ![i].eng = e]
                         /\ UNCHANGED <<ready, running>>
    /\ UNCHANGED <<engVars, rsVars, trVars, schVars, heapOut, taskParsed, outer, reqVars>>

\* process_agenda_by_item: the backoff sleep of _validate (time.sleep: the task
\* keeps the loop)
TaskBackoff ==
    /\ running.kind = "task"
    /\ LET i == running.idx
       IN  /\ tasks[i].eng.pc = "sleep"
           /\ tasks' = [tasks EXCEPT ![i].eng = EngBackoff(@)]
    /\ UNCHANGED <<engVars, rsVars, trVars, schVars, heapOut, taskParsed, outer, ready, running,
                   reqVars>>

\* the results in the reverse of the order of the children
GatherResults_reversed(ts) == [i \in 1..Len(ts) |-> OutRef(Len(ts) + 1 - i)]

\* gather: results = [fut.result() for fut in children]
GatherResults(ts) == [i \in 1..Len(ts) |-> OutRef(i)]

\* a failed child counted as finished and left out of the results
GatherDone_skip_failed(o, ts, i) ==
    IF o.state # "pending" THEN [o EXCEPT !.nfinished = @ + 1]
    ELSE IF o.nfinished + 1 = Len(ts)
    THEN [state |-> "result", nfinished |-> o.nfinished + 1,
          results |-> SelectSeq(GatherResults(ts), LAMBDA r : ts[r.idx].state = "done")]
    ELSE [o EXCEPT !.nfinished = @ + 1]

\* gather._done_callback(fut) for child i (return_exceptions=False)
GatherDone(o, ts, i) ==
    IF o.state # "pending" THEN [o EXCEPT !.nfinished = @ + 1]
    ELSE IF ts[i].state = "failed"
    THEN [state |-> "exception", nfinished |-> o.nfinished + 1, results |-> <<>>]
    ELSE IF o.nfinished + 1 = Len(ts)
    THEN [state |-> "result", nfinished |-> o.nfinished + 1, results |-> GatherResults(ts)]
    ELSE [o EXCEPT !.nfinished = @ + 1]

\* the loop runs the done-callback of task i; resolving the gather future queues
\* the wake-up of the coroutine awaiting it
DoneCallback ==
    /\ running = Nobody /\ ready # <<>> /\ Head(ready).kind = "done"
    /\ outer' = GatherDone(outer, tasks, Head(ready).idx)
    /\ ready' = IF outer.state = "pending" /\ outer'.state # "pending"
                THEN Append(Tail(ready), WakeUp) ELSE Tail(ready)
    /\ UNCHANGED <<engVars, rsVars, trVars, schVars, tasks, heapOut, taskParsed, running, reqVars>>

\* the loop resumes the /agenda coroutine at `await asyncio.gather(*tasks)`: with
\* the items, or with the exception, which the except branch turns into a 500
Wake ==
    /\ running = Nobody /\ ready # <<>> /\ Head(ready).kind = "wake"
    /\ pc = "await"
    /\ ready' = Tail(ready)
    /\ IF outer.state = "result"
       THEN /\ pc' = "resolve"
            /\ running' = Req
            /\ UNCHANGED response
       ELSE /\ pc' = "error"
            /\ response' = Fail500
            /\ running' = Nobody
    /\ UNCHANGED <<engVars, rsVars, trVars, schVars, hand_over, sideVars, tasks, heapOut, taskParsed, outer,
                   agenda, agenda0, gcs, transcription, new_agenda>>

\* new_agenda = AgendaModel(items=items).resolve_status(): the gathered objects are
\* kept by the new AgendaModel and resolve_status assigns their status in place;
\* then process_hand_over(transcription, agenda, new_agenda) enters _validate
Resolve ==
    /\ pc = "resolve" /\ running = Req
    /\ heapOut' = [i \in 1..Len(heapOut) |->
                     IF \E k \in 1..Len(outer.results) : outer.results[k].idx = i
                     THEN <<ItemResolveStatus(heapOut[i][1])>> ELSE heapOut[i]]
    /\ new_agenda' = [present |-> TRUE, items |-> outer.results, hand_over |-> None]
    /\ eng' = EngStart(MAX_RETRIES)
    /\ pc' = "hand_over"
    /\ UNCHANGED <<attempts, rsVars, trVars, schVars, hand_over, sideVars, tasks, taskParsed, outer, ready, running,
                   agenda, agenda0, gcs, transcription, response>>

\* the note written to the agenda the request received
AttachHandOver_to_received(prior, post, note) ==
    [agenda |-> [prior EXCEPT !.hand_over = note],
     new_agenda |-> [post EXCEPT !.hand_over = note]]

\* new_agenda.hand_over = hand_over.hand_over
AttachHandOver(prior, post, note) ==
    [agenda |-> prior, new_agenda |-> [post EXCEPT !.hand_over = note]]

\* response_model=AgendaModel: the returned object serialised
Serialise(ag, heap) ==
    [kind |-> "ok",
     items |-> [k \in 1..Len(ag.items) |-> heap[ag.items[k].idx][1]],
     hand_over |-> ag.hand_over]

\* process_hand_over: an attempt of _validate that parses; the note is attached
\* and new_agenda returned
HandOverAttemptOk ==
    /\ pc = "hand_over" /\ running = Req /\ eng.pc = "call"
    /\ \E h \in HandNotes :
          LET a == AttachHandOver(agenda, new_agenda, h)
          IN  /\ eng' = EngClose(EngSuccess(eng, h))
              /\ agenda' = a.agenda
              /\ new_agenda' = a.new_agenda
              /\ response' = Serialise(a.new_agenda, heapOut)
              /\ hand_over' = h
    /\ pc' = "done"
    /\ running' = Nobody
    /\ UNCHANGED <<attempts, rsVars, trVars, schVars, sideVars, tasks, heapOut, taskParsed, outer, ready,
                   agenda0, gcs, transcription>>

\* the except branch answering with the items already updated
HandOverAttemptFail_returns_items ==
    /\ pc = "hand_over" /\ running = Req /\ eng.pc = "call"
    /\ \E k \in FailKinds : eng' = EngFailure(eng, k)
    /\ IF eng'.pc = "raised"
       THEN /\ pc' = "done"
            /\ response' = Serialise(new_agenda, heapOut)
            /\ running' = Nobody
       ELSE UNCHANGED <<pc, response, running>>
    /\ UNCHANGED <<attempts, rsVars, trVars, schVars, hand_over, sideVars, tasks, heapOut,
                   taskParsed, outer, ready, agenda, agenda0, gcs, transcription, new_agenda>>

\* process_hand_over: an attempt of _validate that fails; after the last one the
\* except branch answers 500
HandOverAttemptFail ==
    /\ pc = "hand_over" /\ running = Req /\ eng.pc = "call"
    /\ \E k \in FailKinds : eng' = EngFailure(eng, k)
    /\ IF eng'.pc = "raised"
       THEN /\ pc' = "error"
            /\ response' = Fail500
            /\ running' = Nobody
       ELSE UNCHANGED <<pc, response, running>>
    /\ UNCHANGED <<attempts, rsVars, trVars, schVars, hand_over, sideVars, tasks, heapOut, taskParsed, outer, ready,
                   agenda, agenda0, gcs, transcription, new_agenda>>

\* process_hand_over: the backoff sleep of _validate
HandOverBackoff ==
    /\ pc = "hand_over" /\ running = Req /\ eng.pc = "sleep"
    /\ eng' = EngBackoff(eng)
    /\ UNCHANGED <<attempts, rsVars, trVars, schVars, flowVars>>

Next ==
    \/ Upload
    \/ TranscriptAttemptOk
    \/ TranscriptAttemptFail
    \/ TranscriptBackoff
    \/ DeleteAfterTranscript
    \/ DeleteAfterFailure
    \/ Gather
    \/ TaskStart
    \/ TaskAttemptOk
    \/ TaskAttemptFail
    \/ TaskBackoff
    \/ DoneCallback
    \/ Wake
    \/ Resolve
    \/ HandOverAttemptOk
    \/ HandOverAttemptFail
    \/ HandOverBackoff

Spec == InitFlow /\ [][Next]_vars

\* the tasks started for the prior item at index i
TasksFor(i) == {k \in 1..Len(tasks) : tasks[k].input = i}

SameButStatus(x, y) ==
    /\ x.agenda = y.agenda
    /\ x.minutes = y.minutes
    /\ x.goals = y.goals

\* C6: an interval update that succeeds returns an Agenda with as many items as
\* the Agenda it received, and the item at index i is what the update task
\* started for the received item at index i returned (its status resolved).
C6_OrderPreserved ==
    response.kind = "ok" =>
        /\ Len(response.items) = Len(agenda0.items)
        /\ \A i \in 1..Len(agenda0.items) :
              /\ Cardinality(TasksFor(i)) = 1
              /\ \A k \in TasksFor(i) :
                    /\ tasks[k].state = "done"
                    /\ taskParsed[k] # <<>>
                    /\ SameButStatus(response.items[i], taskParsed[k][1])

C6_Witness ==
    /\ response.kind = "ok"
    /\ Len(agenda0.items) = 2
    /\ taskParsed[1][1].agenda = "B"
    /\ taskParsed[2][1].agenda = "A"
    /\ response.items[1].agenda = "B"
    /\ response.items[2].agenda = "A"
    /\ response.items[2].goals = <<>>

\* C7: when the update of one item exhausts its retries, the interval update
\* answers with an error and never with an Agenda: no Agenda is built from the
\* items that did succeed, and an answered Agenda has an updated item for every
\* received item.
C7_FailFast ==
    /\ (\E i \in 1..Len(tasks) : tasks[i].state = "failed") =>
          /\ response.kind # "ok"
          /\ ~new_agenda.present
          /\ pc \in {"await", "error"}
          /\ running = Nobody /\ ready = <<>> => response.kind = "error"
    /\ response.kind = "ok" =>
          /\ \A i \in 1..Len(tasks) : tasks[i].state = "done"
          /\ Len(response.items) = Len(agenda0.items)

C7_Witness ==
    /\ Len(tasks) = 2
    /\ tasks[1].state = "done"
    /\ tasks[2].state = "failed"
    /\ tasks[2].eng.calls = MAX_RETRIES + 1
    /\ response.kind = "error"
    /\ ready = <<>>

\* C8: every per-item update, and so every returned Agenda, keeps the item's
\* agenda text and keeps the goals in place with each goal's condition, for
\* every schema-valid response of the backend.
C8_RoundTrip ==
    /\ \A k \in 1..Len(taskParsed) :
          taskParsed[k] # <<>> =>
              LET in == agenda0.items[tasks[k].input]
                  out == taskParsed[k][1]
              IN  /\ out.agenda = in.agenda
                  /\ Len(out.goals) = Len(in.goals)
                  /\ \A g \in 1..Len(in.goals) :
                        g <= Len(out.goals) => out.goals[g].condition = in.goals[g].condition
    /\ response.kind = "ok" =>
          \A i \in 1..Len(response.items) :
              i <= Len(agenda0.items) =>
                  /\ response.items[i].agenda = agenda0.items[i].agenda
                  /\ Len(response.items[i].goals) = Len(agenda0.items[i].goals)

\* C9: the interval update never changes the Agenda it received: at every point
\* of the flow, and after it ended in success or failure, the received items and
\* hand_over are what they were when the request started; the Agenda built and
\* returned is another object, made of the objects the update tasks parsed.
C9_ReceivedUnchanged ==
    /\ agenda = agenda0
    /\ new_agenda.present =>
          \A k \in 1..Len(new_agenda.items) : new_agenda.items[k].heap = "out"

C9_Witness ==
    /\ pc = "done"
    /\ response.kind = "ok"
    /\ Len(agenda.items) = 1
    /\ agenda.items[1].status = NOT_STARTED
    /\ agenda.items[1].minutes = None
    /\ response.items[1].status = COMPLETED
    /\ response.items[1].minutes = "m"
    /\ agenda.hand_over = "h0"
    /\ response.hand_over = "h1"

\* ---------------------------------------------------------------------------
\* Schema export: parse_json_schema
\* ---------------------------------------------------------------------------

\* deepest nesting of wrappers in the schemas the exporter is run on
MaxDepth == 2

IsDict(x) == x.t = "dict"
IsList(x) == x.t = "list"
Has(x, k) == IsDict(x) /\ k \in DOMAIN x.d

\* dict without one key: schema.pop(key), {k: v ... if k != key}
Without(f, key) == [k \in (DOMAIN f) \ {key} |-> f[k]]

\* dict.update: the keys of g are written over those of f
Update(f, g) == [k \in (DOMAIN f) \cup (DOMAIN g) |-> IF k \in DOMAIN g THEN g[k] ELSE f[k]]

\* jsonref.JsonRef.replace_refs: a {"$ref": "#/$defs/name"} object stands for the
\* definition it names
RECURSIVE replace_refs(_, _)
replace_refs(x, root) ==
    IF IsDict(x)
    THEN IF "$ref" \in DOMAIN x.d
         THEN replace_refs(root.d["$defs"].d[x.d["$ref"].v], root)
         ELSE Dict([k \in DOMAIN x.d |-> replace_refs(x.d[k], root)])
    ELSE IF IsList(x)
         THEN List([i \in 1..Len(x.items) |-> replace_refs(x.items[i], root)])
         ELSE x

RECURSIVE _remove_key_recursive(_, _)
_remove_key_recursive(d, key_to_remove) ==
    IF IsDict(d)
    THEN Dict([k \in (DOMAIN d.d) \ {key_to_remove} |->
                  _remove_key_recursive(d.d[k], key_to_remove)])
    ELSE IF IsList(d)
         THEN List([i \in 1..Len(d.items) |-> _remove_key_recursive(d.items[i], key_to_remove)])
         ELSE d

RECURSIVE _remove_allOf(_)
_remove_allOf(schema) ==
    IF IsDict(schema)
    THEN LET merged == IF "allOf" \in DOMAIN schema.d /\ Len(schema.d["allOf"].items) = 1
                       THEN Update(Without(schema.d, "allOf"), schema.d["allOf"].items[1].d)
                       ELSE schema.d
         IN  Dict([k \in DOMAIN merged |-> _remove_allOf(merged[k])])
    ELSE IF IsList(schema)
         THEN List([i \in 1..Len(schema.items) |-> _remove_allOf(schema.items[i])])
         ELSE schema

\* anyOf_items[0]
AnyOfChoice_last(anyOf_items) == anyOf_items[Len(anyOf_items)]

AnyOfChoice(anyOf_items) == anyOf_items[1]

RECURSIVE _remove_anyOf(_)
_remove_anyOf(schema) ==
    IF IsDict(schema)
    THEN LET merged == IF "anyOf" \in DOMAIN schema.d
                       THEN Update(Without(schema.d, "anyOf"),
                                   AnyOfChoice(schema.d["anyOf"].items).d)
                       ELSE schema.d
         IN  Dict([k \in DOMAIN merged |-> _remove_anyOf(merged[k])])
    ELSE IF IsList(schema)
         THEN List([i \in 1..Len(schema.items) |-> _remove_anyOf(schema.items[i])])
         ELSE schema

RECURSIVE _remove_pattern_properties(_)
_remove_pattern_properties(schema) ==
    IF IsDict(schema)
    THEN LET popped == Without(schema.d, "pattern")
         IN  Dict([k \in DOMAIN popped |-> _remove_pattern_properties(popped[k])])
    ELSE IF IsList(schema)
         THEN List([i \in 1..Len(schema.items) |-> _remove_pattern_properties(schema.items[i])])
         ELSE schema

parse_json_schema(schema) ==
    LET s1 == replace_refs(schema, schema)
        s2 == _remove_key_recursive(s1, "title")
        s3 == _remove_allOf(s2)
        s4 == _remove_anyOf(s3)
        s5 == _remove_pattern_properties(s4)
    IN  Dict(Without(s5.d, "$defs"))

\* The schemas pydantic's model_json_schema() hands over: leaves, and wrappers
\* around schemas one level less deep.
StringSchema == Dict([type |-> Atom("string")])
NullSchema == Dict([type |-> Atom("null")])
StringSchemas ==
    { StringSchema,
      Dict([type |-> Atom("string"), title |-> Atom("T")]),
      Dict([type |-> Atom("string"), pattern |-> Atom("p")]) }
LeafSchemas == StringSchemas \cup {NullSchema, Dict([k \in {"$ref"} |-> Atom("D")])}

\* Optional[x]: x | None
OptionalSchema(x) ==
    Dict([anyOf |-> List(<<x, NullSchema>>), default |-> Atom("null"), title |-> Atom("T")])

Wrappers(x) ==
    { OptionalSchema(x),
      Dict([allOf |-> List(<<x>>), description |-> Atom("d")]),
      Dict([allOf |-> List(<<x, StringSchema>>)]),
      Dict([type |-> Atom("array"), items |-> x]),
      Dict([type |-> Atom("object"), properties |-> Dict([f |-> x])]) }

RECURSIVE SchemasUpTo(_)
SchemasUpTo(depth) ==
    IF depth = 0
    THEN LeafSchemas
    ELSE LET inner == SchemasUpTo(depth - 1)
         IN  inner \cup UNION { Wrappers(x) : x \in inner }

DefSchemas ==
    { Dict([type |-> Atom("string"), title |-> Atom("D")]),
      Dict([type |-> Atom("object"), title |-> Atom("D"),
            properties |-> Dict([result |-> OptionalSchema(StringSchema)])]) }

ModelSchema(field, def) ==
    Dict([k \in {"title", "type", "properties", "$defs"} |->
            CASE k = "title" -> Atom("M")
              [] k = "type" -> Atom("object")
              [] k = "properties" -> Dict([f |-> field])
              [] k = "$defs" -> Dict([D |-> def])])

SchemaInputs == { ModelSchema(x, y) : x \in SchemasUpTo(MaxDepth), y \in DefSchemas }

InitSchema ==
    /\ schIn \in SchemaInputs
    /\ schOut = Dict(<<>>)
    /\ schPc = "idle"
    /\ EngUnused
    /\ RsIdle
    /\ TrIdle
    /\ FlowIdle

\* CustomBaseModel.to_response_schema
ToResponseSchema ==
    /\ schPc = "idle"
    /\ schOut' = parse_json_schema(schIn)
    /\ schPc' = "done"
    /\ UNCHANGED <<schIn, engVars, rsVars, trVars, flowVars>>

NextSchema == ToResponseSchema

SpecSchema == InitSchema /\ [][NextSchema]_vars

\* a field declared Optional[str]: anyOf of a string schema and the null schema
IsOptionalString(x) ==
    /\ Has(x, "anyOf")
    /\ Len(x.d["anyOf"].items) = 2
    /\ Has(x.d["anyOf"].items[1], "type")
    /\ x.d["anyOf"].items[1].d["type"] = Atom("string")
    /\ x.d["anyOf"].items[2] = NullSchema

RECURSIVE Mentions(_, _)
Mentions(x, y) ==
    \/ x = y
    \/ IsDict(x) /\ \E k \in DOMAIN x.d : Mentions(x.d[k], y)
    \/ IsList(x) /\ \E i \in 1..Len(x.items) : Mentions(x.items[i], y)

\* walks the fields of the input (properties, items) next to those of the export
RECURSIVE OptionalStringsExported(_, _)
OptionalStringsExported(in, out) ==
    IF IsOptionalString(in)
    THEN /\ Has(out, "type")
         /\ out.d["type"] = Atom("string")
         /\ ~ Has(out, "anyOf")
         /\ ~ Mentions(out, NullSchema)
    ELSE IF IsDict(in) /\ ~ Has(in, "anyOf") /\ ~ Has(in, "allOf")
         THEN \A k \in (DOMAIN in.d) \ {"title", "pattern", "$defs"} :
                 IsDict(in.d[k]) =>
                     /\ Has(out, k)
                     /\ OptionalStringsExported(in.d[k], out.d[k])
         ELSE TRUE

\* C11: in the exported schema every field declared as an optional string (an
\* anyOf of a string schema and the null schema, in that order) is a plain
\* string entry: its type is string, it has no anyOf key and the null
\* alternative is gone.
C11_OptionalString ==
    schPc = "done" =>
        OptionalStringsExported(replace_refs(schIn, schIn), schOut)

\* the goals field of an item: an array of a referenced model whose result
\* field is an optional string
C11_Witness ==
    /\ schPc = "done"
    /\ schIn.d["properties"].d["f"] =
           Dict([type |-> Atom("array"), items |-> Dict([k \in {"$ref"} |-> Atom("D")])])
    /\ Has(schIn.d["$defs"].d["D"], "properties")
    /\ IsOptionalString(schIn.d["$defs"].d["D"].d["properties"].d["result"])
    /\ schOut.d["properties"].d["f"].d["items"].d["properties"].d["result"].d["type"]
           = Atom("string")

RECURSIVE NoKeyAtAnyDepth(_, _)
NoKeyAtAnyDepth(x, key) ==
    /\ IsDict(x) => /\ key \notin DOMAIN x.d
                    /\ \A k \in DOMAIN x.d : NoKeyAtAnyDepth(x.d[k], key)
    /\ IsList(x) => \A i \in 1..Len(x.items) : NoKeyAtAnyDepth(x.items[i], key)

RECURSIVE NoSingleAllOf(_)
NoSingleAllOf(x) ==
    /\ IsDict(x) => /\ "allOf" \in DOMAIN x.d => Len(x.d["allOf"].items) # 1
                    /\ \A k \in DOMAIN x.d : NoSingleAllOf(x.d[k])
    /\ IsList(x) => \A i \in 1..Len(x.items) : NoSingleAllOf(x.items[i])

\* C20: for every input schema tree the output of parse_json_schema has at no
\* depth a title key, a pattern key, an anyOf key or an allOf holding exactly
\* one schema, and has no top-level $defs: every anyOf union is replaced by its
\* first alternative, unions nested inside that first alternative included.
C20_NoneLeft ==
    schPc = "done" =>
        /\ NoKeyAtAnyDepth(schOut, "title")
        /\ NoKeyAtAnyDepth(schOut, "pattern")
        /\ NoKeyAtAnyDepth(schOut, "anyOf")
        /\ NoSingleAllOf(schOut)
        /\ ~ Has(schOut, "$defs")

\* the parts of C20 taken one by one
C20_NoTitle == schPc = "done" => NoKeyAtAnyDepth(schOut, "title")
C20_NoPattern == schPc = "done" => NoKeyAtAnyDepth(schOut, "pattern")
C20_NoAnyOf == schPc = "done" => NoKeyAtAnyDepth(schOut, "anyOf")
C20_NoSingleAllOf == schPc = "done" => NoSingleAllOf(schOut)
C20_NoDefs == schPc = "done" => ~ Has(schOut, "$defs")

\* the goal-completion rule: NOT_STARTED when no goal is done, COMPLETED when
\* every goal is, IN_PROGRESS otherwise
GoalCompletionRule(goals) ==
    IF \A g \in 1..Len(goals) : ~goals[g].done THEN NOT_STARTED
    ELSE IF \A g \in 1..Len(goals) : goals[g].done THEN COMPLETED
    ELSE IN_PROGRESS

\* C12: every Agenda returned by a successful interval update carries as
\* hand_over exactly the note the hand-over synthesis of that interval produced,
\* and each of its items has the status the goal-completion rule derives from
\* the item's returned goals, whatever status the backend supplied.
C12_ReturnedAgenda ==
    response.kind = "ok" =>
        /\ response.hand_over = hand_over
        /\ hand_over \in HandNotes
        /\ \A i \in 1..Len(response.items) :
              response.items[i].status = GoalCompletionRule(response.items[i].goals)

\* the parts of C12 taken one by one: the note, and the status of the items
\* that were returned with at least one goal
C12_NoteAttached ==
    response.kind = "ok" => response.hand_over = hand_over /\ hand_over \in HandNotes
C12_StatusWithGoals ==
    response.kind = "ok" =>
        \A i \in 1..Len(response.items) :
            response.items[i].goals # <<>> =>
                response.items[i].status = GoalCompletionRule(response.items[i].goals)

RECURSIVE SumSeq(_)
SumSeq(xs) == IF xs = <<>> THEN 0 ELSE Head(xs) + SumSeq(Tail(xs))

\* C13 as stated: with the default max_retries = 5 and a backend that always
\* fails, the cumulative backoff slept by _validate before it gives up is 63
\* time units, the sum 1+2+4+8+16+32.
C13_Backoff63 ==
    (AllFailed /\ eng.pc = "raised" /\ eng.max_retries = MAX_RETRIES) =>
        SumSeq(eng.sleeps) = 1 + 2 + 4 + 8 + 16 + 32

\* C13, amended: with the default max_retries = 5 and a backend that always
\* fails, _validate sleeps five times before it gives up, 1+2+4+8+16 = 31 time
\* units in all; the sixth failure is fatal and no sleep of 32 happens.
C13_Backoff31 ==
    (AllFailed /\ eng.pc = "raised" /\ eng.max_retries = MAX_RETRIES) =>
        /\ eng.sleeps = <<1, 2, 4, 8, 16>>
        /\ SumSeq(eng.sleeps) = 31
        /\ eng.calls = MAX_RETRIES + 1

C13_Witness ==
    /\ AllFailed
    /\ eng.pc = "raised"
    /\ eng.max_retries = MAX_RETRIES
    /\ Len(attempts) = 6
    /\ SumSeq(eng.sleeps) = 31

\* the generation call or backoff sleep of task i is in progress
InValidate(i) == tasks[i].state = "running" /\ tasks[i].eng.pc \in {"call", "sleep"}

\* C14: within one interval update the per-item updates run concurrently: while
\* the generation call or backoff sleep of one item is in progress, the update
\* of another item that has not started yet can start, so that the calls of two
\* items are in progress at the same time and a later item can complete before
\* an earlier one.
C14_Concurrent ==
    \A i \in 1..Len(tasks) :
        (InValidate(i) /\ \E j \in 1..Len(tasks) : tasks[j].state = "scheduled")
            => ENABLED TaskStart

\* what the code does instead: at most one item update is ever in progress, and
\* an item update starts only when every earlier one has completed
C14_OneAtATime ==
    /\ Cardinality({i \in 1..Len(tasks) : tasks[i].state = "running"}) <= 1
    /\ \A i, j \in 1..Len(tasks) :
          (i < j /\ tasks[j].state # "scheduled") => tasks[i].state \in {"done", "failed"}

\* the stage of an interval update the endpoint is in
StageOf(p) ==
    CASE p \in {"webm", "transcript", "delete", "delete_exc"} -> 1
      [] p \in {"gather", "await"} -> 2
      [] p = "resolve" -> 3
      [] p = "hand_over" -> 4
      [] OTHER -> 5

C15_Stages ==
    /\ StageOf(pc) = 1 => tasks = <<>>
    /\ StageOf(pc) \in 2..4 \/ pc = "done" =>
          /\ transcription # [comments |-> <<>>]
          /\ gcs.deletes = 1
    /\ pc \in {"await", "resolve", "hand_over", "done"} =>
          /\ Len(tasks) = Len(agenda0.items)
          /\ \A k \in 1..Len(agenda0.items) :
                Cardinality({i \in 1..Len(tasks) : tasks[i].input = k}) = 1
    /\ pc \in {"resolve", "hand_over", "done"} =>
          \A i \in 1..Len(tasks) : tasks[i].state = "done"
    /\ new_agenda.present => pc \in {"hand_over", "done", "error"}
    /\ pc \in {"hand_over", "done"} =>
          /\ new_agenda.present
          /\ Len(new_agenda.items) = Len(agenda0.items)
          /\ \A k \in 1..Len(new_agenda.items) :
                LET item == heapOut[new_agenda.items[k].idx][1]
                IN  item.status = StatusOfGoals(item.goals)
    /\ pc = "hand_over" => eng.pc \in {"call", "sleep"} /\ hand_over = None
    /\ hand_over # None => pc = "done"

C15_Step ==
    /\ StageOf(pc') >= StageOf(pc)
    /\ pc' = "gather" => pc \in {"delete", "gather"}
    /\ pc' = "resolve" => pc \in {"gather", "await", "resolve"}
    /\ pc' = "hand_over" => pc \in {"resolve", "hand_over"}
    /\ pc' = "done" => pc \in {"hand_over", "done"}
    /\ pc \in {"done", "error"} => pc' = pc
    /\ hand_over # None => hand_over' = hand_over

\* C15: in every interval update the stages occur in the order transcription,
\* per-item updates, status resolution, hand-over synthesis, return: exactly one
\* item-update task is started per item of the prior Agenda, resolution starts
\* only after every task has completed, the hand-over generation call is issued
\* only after resolution and receives the resolved Agenda, and at most one
\* hand-over synthesis is run per interval.
C15_StageOrder == []C15_Stages /\ [][C15_Step]_vars

C15_Witness ==
    /\ pc = "done"
    /\ response.kind = "ok"
    /\ Len(agenda0.items) = 2
    /\ Len(tasks) = 2
    /\ tasks[1].input = 1 /\ tasks[2].input = 2
    /\ new_agenda.present
    /\ hand_over \in HandNotes

\* C16: status resolution is pure: resolve_status on an item or on an Agenda
\* leaves its input unchanged, every input item still has the status it had
\* before the call, and the resolved statuses appear only in the returned value.
C16_InputUnchanged ==
    rsLast.op # "none" =>
        \A i \in 1..Len(rsItems) : rsItems[i].status = rsOld[i].status

\* what resolve_status leaves alone: every field of the input items but status
C16_OnlyStatusWritten ==
    /\ Len(rsItems) = Len(rsOld)
    /\ \A i \in 1..Len(rsItems) :
          /\ [rsItems[i] EXCEPT !.status = rsOld[i].status] = rsOld[i]
          /\ i \notin Resolved => rsItems[i] = rsOld[i]

(***************************************************************************)
(* A meeting: the caller posts to /agenda, for each interval, the Agenda   *)
(* the previous interval's request returned.                               *)
(***************************************************************************)
\* the next POST /agenda of the caller, carrying the previous response
NextInterval ==
    /\ pc = "done" /\ response.kind = "ok"
    /\ agenda' = [items |-> response.items, hand_over |-> response.hand_over]
    /\ agenda0' = agenda'
    /\ chained' = TRUE
    /\ pc' = "webm"
    /\ gcs' = NoGcs
    /\ transcription' = [comments |-> <<>>]
    /\ tasks' = <<>>
    /\ heapOut' = <<>>
    /\ taskParsed' = <<>>
    /\ outer' = NoOuter
    /\ ready' = <<>>
    /\ running' = Req
    /\ new_agenda' = NoAgenda
    /\ response' = NoResponse
    /\ hand_over' = None
    /\ eng' = EngIdle
    /\ UNCHANGED <<attempts, rsVars, trVars, schVars, req2>>

NextChain ==
    \/ Next
    \/ NextInterval

SpecChain == InitFlow /\ [][NextChain]_vars

StatusRank(st) ==
    CASE st = NOT_STARTED -> 0
      [] st = IN_PROGRESS -> 1
      [] st = COMPLETED -> 2

\* C17: across a sequence of interval updates in which each update receives the
\* Agenda returned by the previous one, the status of each item never goes
\* down in the order NOT_STARTED < IN_PROGRESS < COMPLETED: no update returns
\* an item with a status lower than it had in the Agenda the update received.
C17_Monotonic ==
    (chained /\ response.kind = "ok") =>
        \A i \in 1..Len(response.items) :
            i <= Len(agenda0.items) =>
                StatusRank(response.items[i].status) >= StatusRank(agenda0.items[i].status)

\* the returned item has the text, the goal count and the goal conditions of
\* the received one
SameGoalList(in, out) ==
    /\ out.agenda = in.agenda
    /\ in.goals # <<>>
    /\ Len(out.goals) = Len(in.goals)
    /\ \A g \in 1..Len(in.goals) : out.goals[g].condition = in.goals[g].condition

\* C17 narrowed to the items returned with the goal list they were received
\* with: the status still goes down, when a done flag comes back false
C17_MonotonicSameGoals ==
    (chained /\ response.kind = "ok") =>
        \A i \in 1..Len(response.items) :
            (i <= Len(agenda0.items) /\ SameGoalList(agenda0.items[i], response.items[i])) =>
                StatusRank(response.items[i].status) >= StatusRank(agenda0.items[i].status)

\* the status does not go down when moreover no done flag comes back false
C17_MonotonicIfDoneKept ==
    (chained /\ response.kind = "ok") =>
        \A i \in 1..Len(response.items) :
            ( /\ i <= Len(agenda0.items)
              /\ SameGoalList(agenda0.items[i], response.items[i])
              /\ \A g \in 1..Len(agenda0.items[i].goals) :
                    agenda0.items[i].goals[g].done => response.items[i].goals[g].done ) =>
                StatusRank(response.items[i].status) >= StatusRank(agenda0.items[i].status)

ResultOnlyWhenDone(items) ==
    \A i \in 1..Len(items) :
        \A g \in 1..Len(items[i].goals) :
            items[i].goals[g].result # None => items[i].goals[g].done

\* C18: in every Agenda accepted from the caller or returned by an update, a
\* goal's result is populated only when the goal is done: no goal has a
\* non-null result together with done=false.
C18_ResultOnlyWhenDone ==
    /\ pc # "idle" => ResultOnlyWhenDone(agenda0.items)
    /\ response.kind = "ok" => ResultOnlyWhenDone(response.items)

\* C18 for the returned Agenda alone, when the accepted one satisfied it
C18_ReturnedResultOnlyWhenDone ==
    (response.kind = "ok" /\ ResultOnlyWhenDone(agenda0.items)) =>
        ResultOnlyWhenDone(response.items)

(***************************************************************************)
(* A second request, to /suggest_actions, sent to the same server while    *)
(* the /agenda request is being served: uvicorn.run(app) serves every      *)
(* request on one event loop.                                              *)
(***************************************************************************)
Req2 == [kind |-> "req2", idx |-> 0]

\* the loop is between two callbacks, or the /agenda coroutine is suspended in
\* await host_audio.read() / await meet_audio.read() of process_webm_file
LoopFree == running = Nobody \/ (pc = "webm" /\ running = Req)

\* who the loop goes back to when the second request's handler ends
Released == IF pc = "webm" THEN Req ELSE Nobody

\* the client sends the second request: it waits at the listening socket
Arrive2 ==
    /\ req2.pc = "absent"
    /\ req2' = [req2 EXCEPT !.pc = "arrived"]
    /\ UNCHANGED <<engVars, rsVars, trVars, schVars, loopVars,
                   agenda, agenda0, pc, gcs, transcription, new_agenda, response,
                   hand_over, chained>>

\* the loop accepts it and runs suggest_actions up to _validate
Start2 ==
    /\ req2.pc = "arrived"
    /\ LoopFree
    /\ req2' = [req2 EXCEPT !.pc = "running", !.eng = EngStart(MAX_RETRIES)]
    /\ running' = Req2
    /\ UNCHANGED <<engVars, rsVars, trVars, schVars, tasks, heapOut, taskParsed, outer, ready,
                   agenda, agenda0, pc, gcs, transcription, new_agenda, response,
                   hand_over, chained>>

\* process_suggest_actions: an attempt of _validate that parses; the handler returns
Suggest2AttemptOk ==
    /\ running = Req2 /\ req2.eng.pc = "call"
    /\ req2' = [pc |-> "done", eng |-> EngClose(EngSuccess(req2.eng, "actions")),
                response |-> "ok"]
    /\ running' = Released
    /\ UNCHANGED <<engVars, rsVars, trVars, schVars, tasks, heapOut, taskParsed, outer, ready,
                   agenda, agenda0, pc, gcs, transcription, new_agenda, response,
                   hand_over, chained>>

\* process_suggest_actions: an attempt of _validate that fails; after the last one
\* the exception leaves the handler and the answer is a 500
Suggest2AttemptFail ==
    /\ running = Req2 /\ req2.eng.pc = "call"
    /\ \E k \in FailKinds :
          LET e == EngFailure(req2.eng, k)
          IN  IF e.pc = "raised"
              THEN /\ req2' = [pc |-> "error", eng |-> EngClose(e), response |-> "error"]
                   /\ running' = Released
              ELSE /\ req2' = [req2 EXCEPT !.eng = e]
                   /\ UNCHANGED running
    /\ UNCHANGED <<engVars, rsVars, trVars, schVars, tasks, heapOut, taskParsed, outer, ready,
                   agenda, agenda0, pc, gcs, transcription, new_agenda, response,
                   hand_over, chained>>

\* process_suggest_actions: the backoff sleep of _validate
Suggest2Backoff ==
    /\ running = Req2 /\ req2.eng.pc = "sleep"
    /\ req2' = [req2 EXCEPT !.eng = EngBackoff(@)]
    /\ UNCHANGED <<engVars, rsVars, trVars, schVars, loopVars,
                   agenda, agenda0, pc, gcs, transcription, new_agenda, response,
                   hand_over, chained>>

NextTwo ==
    \/ Next
    \/ Arrive2
    \/ Start2
    \/ Suggest2AttemptOk
    \/ Suggest2AttemptFail
    \/ Suggest2Backoff

SpecTwo == InitFlow /\ [][NextTwo]_vars

\* the /agenda request is inside a generation call or a backoff sleep of _validate
FirstInValidate ==
    \/ pc \in {"transcript", "hand_over"} /\ eng.pc \in {"call", "sleep"}
    \/ \E i \in 1..Len(tasks) : InValidate(i)

\* C19: inbound requests run independently of each other: while one request is
\* inside a generation call or a backoff sleep of the retry loop, a second
\* request that has arrived can start, rather than wait for the first.
C19_Independent ==
    (FirstInValidate /\ req2.pc = "arrived") => ENABLED Start2

\* what the code does instead: the second request's handler never runs while
\* the first request is inside _validate, and the first request takes no step
\* while the second is inside its own
C19_OneAtATime ==
    /\ req2.pc = "running" => ~ FirstInValidate
    /\ req2.pc = "running" => running = Req2

\* the stage whose _validate exhausted its retries
TranscriptionFailed == eng.pc = "raised" /\ ~new_agenda.present
HandOverFailed == eng.pc = "raised" /\ new_agenda.present
ItemFailed == \E i \in 1..Len(tasks) : tasks[i].state = "failed"

C21_Failed ==
    /\ (TranscriptionFailed \/ HandOverFailed \/ ItemFailed \/ pc \in {"delete_exc", "error"}) =>
          /\ response.kind # "ok"
          /\ response.items = <<>>
          /\ pc = "error" => response = Fail500
    /\ TranscriptionFailed =>
          /\ pc \in {"delete_exc", "error"}
          /\ eng.calls = TRANSCRIPT_RETRIES + 1
          /\ tasks = <<>> /\ ready = <<>>
          /\ hand_over = None
    /\ HandOverFailed =>
          /\ pc = "error"
          /\ eng.calls = MAX_RETRIES + 1
          /\ \A i \in 1..Len(tasks) : tasks[i].state = "done"
          /\ response = Fail500
    /\ response.kind = "ok" =>
          /\ eng.pc = "returned"
          /\ gcs.uploaded
          /\ transcription # [comments |-> <<>>]
          /\ \A i \in 1..Len(tasks) : tasks[i].state = "done"

\* once a stage has failed no generation call is issued any more
C21_FailedStep ==
    (TranscriptionFailed \/ HandOverFailed) =>
        /\ UNCHANGED <<eng, tasks, new_agenda, hand_over>>
        /\ pc' \in {pc, "error"}

\* C21: no Agenda is ever returned from an interval update in which a stage
\* failed: when the transcription exhausts its retries no item-update and no
\* hand-over generation call is issued and the request ends in an error; when
\* every item update succeeds and the hand-over synthesis exhausts its retries
\* the request ends in an error and the updated items are not returned.
C21_NoPartialAgenda == []C21_Failed /\ [][C21_FailedStep]_vars

C21_Witness ==
    /\ HandOverFailed
    /\ pc = "error"
    /\ Len(tasks) = 2
    /\ heapOut[1] # <<>> /\ heapOut[1][1].status = COMPLETED
    /\ response = Fail500

\* the other case of C21: the transcription exhausted its retries
C21_WitnessTranscription ==
    /\ TranscriptionFailed
    /\ pc = "error"
    /\ Len(agenda0.items) = 2
    /\ response = Fail500

\* process_audio_files has returned or raised
AudioFilesEnded == pc \notin {"webm", "transcript", "delete", "delete_exc"}

C22_WitnessSuccess ==
    /\ pc = "gather"
    /\ transcription # [comments |-> <<>>]
    /\ gcs.deletes = 1
    /\ ~gcs.exists

TaskEnded(i) == tasks[i].state \in {"done", "failed"}

\* C23: when the update of one item ends in failure the update tasks of the
\* other items are not cancelled: every task started for the interval runs to
\* its own end (success or exhausted retries) before the failure is surfaced to
\* the caller, so an interval with N items and a failing item can still issue
\* up to N * (max_retries + 1) generation calls.
C23_NoCancellation ==
    /\ \A j \in 1..Len(tasks) :
          tasks[j].state = "scheduled" => \E k \in 1..Len(ready) : ready[k] = TaskStep(j)
    /\ outer.state \in {"result", "exception"} => \A i \in 1..Len(tasks) : TaskEnded(i)
    /\ (ItemFailed /\ (pc = "error" \/ response.kind # "none")) =>
          /\ \A i \in 1..Len(tasks) : TaskEnded(i)
          /\ response = Fail500
    /\ \A i \in 1..Len(tasks) :
          /\ tasks[i].eng.calls <= MAX_RETRIES + 1
          /\ tasks[i].state = "failed" => tasks[i].eng.calls = MAX_RETRIES + 1

\* two items, the first failing: the second still made its MAX_RETRIES + 1
\* calls, 2 * (MAX_RETRIES + 1) in all, before the request answered
C23_Witness ==
    /\ Len(tasks) = 2
    /\ tasks[1].state = "failed" /\ tasks[1].eng.calls = MAX_RETRIES + 1
    /\ tasks[2].state = "failed" /\ tasks[2].eng.calls = MAX_RETRIES + 1
    /\ pc = "error"
    /\ response = Fail500

\* the first item failing and the second still updated
C23_WitnessLaterDone ==
    /\ Len(tasks) = 2
    /\ tasks[1].state = "failed"
    /\ tasks[2].state = "done"
    /\ pc = "error"

====
